---- MODULE Spec2Model ----
(***************************************************************************)
(* Model of the todo store of src/todos/scripts/todo.py: the two JSONL     *)
(* partition files, the commands that rewrite them, prefix resolution of   *)
(* ids, the readiness query and the three-way merge driver.                *)
(***************************************************************************)
EXTENDS Integers, Sequences, FiniteSets, TLC

(***************************************************************************)
(* Bounds of the model.                                                    *)
(***************************************************************************)
\* largest value of the wall clock read by now()
MaxClock == 1
\* largest number of records (open plus closed) a command sequence builds
MaxItems == 2
\* longest id and needle handed to resolve_id on its own
MaxKeyLen == 2
\* largest number of ids in a dict handed to resolve_id on its own
MaxKeys == 3

(***************************************************************************)
(* Ids.  An id is a string; it is modelled as a sequence of characters so  *)
(* that str.startswith and the string order of sorted() are computed.      *)
(* The constant head "td-" of a generated id is one character of the       *)
(* model, and the eight hex digits that follow it are scaled to one digit  *)
(* drawn from Hex.                                                         *)
(***************************************************************************)
Hex == {"a", "b"}
Chars == Hex \cup {"td-"}
\* code point order of the characters: '-' and digits/letters of Hex sort
\* below 't'
CharRank == [c \in Chars |-> IF c = "a" THEN 1 ELSE IF c = "b" THEN 2 ELSE 3]

\* "td-" + uuid4().hex[:8]: every id cmd_new can draw
NewIds == {<<"td-", x>> : x \in Hex}

\* str.startswith
StartsWith(s, p) ==
    /\ Len(p) <= Len(s)
    /\ \A i \in 1..Len(p) : s[i] = p[i]

\* s < t in Python's string order
StrLess(s, t) ==
    \E k \in 1..(Len(t)) :
        /\ k <= Len(s) + 1
        /\ \A i \in 1..(k - 1) : s[i] = t[i]
        /\ \/ k = Len(s) + 1
           \/ (k <= Len(s) /\ CharRank[s[k]] < CharRank[t[k]])

\* the least string of a non-empty set
MinStr(S) == CHOOSE s \in S : \A t \in S \ {s} : StrLess(s, t)

RECURSIVE SortedSeq(_)
\* sorted(S) for a set of strings
SortedSeq(S) ==
    IF S = {} THEN <<>>
    ELSE LET m == MinStr(S) IN <<m>> \o SortedSeq(S \ {m})

\* the elements of a list
Range(s) == {s[i] : i \in 1..Len(s)}

\* the command line arguments tried for an id: the non-empty prefixes of
\* the generated ids, the full ids included
Needles ==
    UNION {{SubSeq(u, 1, n) : n \in 1..Len(u)} : u \in NewIds}

Titles == {"t"}
Texts == {"s"}

(***************************************************************************)
(* Records and files.                                                      *)
(***************************************************************************)
\* the empty dict
EmptyTodos == [i \in {} |-> i]

\* a path with no file
NoFile == [exists |-> FALSE, lines |-> <<>>]

\* write_todos: one line per record, in ascending order of the keys; the
\* rename replaces the whole file
WriteTodos(todos) ==
    LET ks == SortedSeq(DOMAIN todos)
    IN [exists |-> TRUE, lines |-> [i \in 1..Len(ks) |-> todos[ks[i]]]]

\* load_todos: a missing file is the empty dict; each line is stored under
\* its own "id", a later line replacing an earlier one of the same id
LoadTodos(file) ==
    IF ~file.exists THEN EmptyTodos
    ELSE LET ls == file.lines
             last(k) == CHOOSE i \in 1..Len(ls) :
                            /\ ls[i].id = k
                            /\ \A j \in (i + 1)..Len(ls) : ls[j].id # k
         IN [k \in {ls[i].id : i \in 1..Len(ls)} |-> ls[last(k)]]

\* dict assignment d[k] = v
Put(d, k, v) == [x \in DOMAIN d \cup {k} |-> IF x = k THEN v ELSE d[x]]

\* del d[k]
Del(d, k) == [x \in DOMAIN d \ {k} |-> d[x]]

\* ResolveId collecting the prefix matches without the exact-match test
ResolveIdPrefixOnly(todos, needle) ==
    LET matches == {t \in DOMAIN todos : StartsWith(t, needle)}
    IN IF matches = {}
       THEN [err |-> "unknown id", id |-> <<>>, listed |-> <<>>]
       ELSE IF Cardinality(matches) > 1
       THEN [err |-> "ambiguous id", id |-> <<>>, listed |-> SortedSeq(matches)]
       ELSE [err |-> "ok", id |-> CHOOSE t \in matches : TRUE, listed |-> <<>>]

\* ResolveId returning the first match without the test for several matches
ResolveIdFirstMatch(todos, needle) ==
    IF needle \in DOMAIN todos
    THEN [err |-> "ok", id |-> needle, listed |-> <<>>]
    ELSE LET matches == {t \in DOMAIN todos : StartsWith(t, needle)}
         IN IF matches = {}
            THEN [err |-> "unknown id", id |-> <<>>, listed |-> <<>>]
            ELSE [err |-> "ok", id |-> MinStr(matches), listed |-> <<>>]

\* the outcome of resolve_id: the id, or the message die() prints
ResolveId(todos, needle) ==
    IF needle \in DOMAIN todos
    THEN [err |-> "ok", id |-> needle, listed |-> <<>>]
    ELSE LET matches == {t \in DOMAIN todos : StartsWith(t, needle)}
         IN IF matches = {}
            THEN [err |-> "unknown id", id |-> <<>>, listed |-> <<>>]
            ELSE IF Cardinality(matches) > 1
            THEN [err |-> "ambiguous id", id |-> <<>>,
                  listed |-> SortedSeq(matches)]
            ELSE [err |-> "ok", id |-> CHOOSE t \in matches : TRUE,
                  listed |-> <<>>]

\* the record cmd_new stores
NewItem(id, title, t) ==
    [id |-> id, title |-> title, summary |-> "", status |-> "open",
     deps |-> <<>>, updated_at |-> t]

\* Merge with > in place of >=: a tie goes to theirs
MergeStrict(base, ours, theirs) ==
    LET ids == DOMAIN base \cup DOMAIN ours \cup DOMAIN theirs
        kept == {k \in ids : k \in DOMAIN ours \/ k \in DOMAIN theirs}
    IN [k \in kept |->
           IF \/ k \notin DOMAIN theirs
              \/ (k \in DOMAIN ours /\ ours[k].updated_at > theirs[k].updated_at)
           THEN ours[k] ELSE theirs[k]]

\* Merge taking an id of base that theirs lacks as deleted by theirs
MergeHonourDelete(base, ours, theirs) ==
    LET ids == DOMAIN base \cup DOMAIN ours \cup DOMAIN theirs
        kept == {k \in ids : \/ k \in DOMAIN theirs
                             \/ (k \in DOMAIN ours /\ k \notin DOMAIN base)}
    IN [k \in kept |->
           IF \/ k \notin DOMAIN theirs
              \/ (k \in DOMAIN ours /\ ours[k].updated_at >= theirs[k].updated_at)
           THEN ours[k] ELSE theirs[k]]

\* the dict `merged` that cmd_merge builds from the three loaded dicts
Merge(base, ours, theirs) ==
    LET ids == DOMAIN base \cup DOMAIN ours \cup DOMAIN theirs
        kept == {k \in ids : k \in DOMAIN ours \/ k \in DOMAIN theirs}
    IN [k \in kept |->
           IF \/ k \notin DOMAIN theirs
              \/ (k \in DOMAIN ours /\ ours[k].updated_at >= theirs[k].updated_at)
           THEN ours[k] ELSE theirs[k]]

\* cmd_merge: the file it leaves at the ours path
CmdMerge(baseFile, oursFile, theirsFile) ==
    WriteTodos(Merge(LoadTodos(baseFile), LoadTodos(oursFile),
                     LoadTodos(theirsFile)))

\* AppendSorted without the sort
AppendOnly(deps, p) == Append(deps, p)

\* list.append followed by list.sort in cmd_dep
AppendSorted(deps, p) == SortedSeq(Range(deps) \cup {p})

\* IsReady taking a dependency that is not in the dict as done
IsReadyAbsentDone(todos, t) ==
    /\ t.status = "open"
    /\ \A d \in Range(t.deps) : d \notin DOMAIN todos \/ todos[d].status = "closed"

\* IsReady with any() in place of all()
IsReadyAny(todos, t) ==
    /\ t.status = "open"
    /\ \E d \in Range(t.deps) : d \in DOMAIN todos /\ todos[d].status = "closed"

\* the condition of cmd_ready on one record of the loaded dict
IsReady(todos, t) ==
    /\ t.status = "open"
    /\ \A d \in Range(t.deps) : d \in DOMAIN todos /\ todos[d].status = "closed"

\* the ids cmd_ready prints for a loaded dict, in printing order
ReadyIds(todos) ==
    SortedSeq({k \in DOMAIN todos : IsReady(todos, todos[k])})

(***************************************************************************)
(* State.  The store and the last command; one close command in flight     *)
(* (pc, run); the merge driver run on two branches (snap*, ours*, merged); *)
(* resolve_id applied to a given dict (argTodos, argNeedle, resolved).     *)
(***************************************************************************)
VARIABLES
    dirExists,    \* os.path.isdir(".todos")
    todosFile,    \* .todos/todos.jsonl
    closedFile,   \* .todos/closed.jsonl
    clock,        \* the time now() returns
    exit,         \* how the last command ended: "ok" or the message of die()
    printed,      \* what the last command printed on stdout
    pc,           \* position of the close command in flight, or "idle"
    run,          \* the files before that command and after all of it
    snapBase,     \* merge driver: the common ancestor's file (%O)
    snapA,        \* the file as committed on branch A
    snapB,        \* the file as committed on branch B
    oursAB,       \* the file at the ours path (%A) of `merge base A B`
    oursBA,       \* the file at the ours path (%A) of `merge base B A`
    merged,       \* which of the two merges have run
    argTodos,     \* resolve_id: the dict it is given
    argNeedle,    \* resolve_id: the needle it is given
    resolved,     \* resolve_id: its outcome, once it has run
    rtDict,       \* round trip: the dict handed to write_todos
    rtText,       \* round trip: the text of the file, once written
    rtLoaded,     \* round trip: what load_todos returns, once it has run
    phase,        \* branches: where the two branches and their merge are
    forkBase,     \* branches: the two files at the commit both start from
    commitA,      \* branches: the two files as committed on branch A
    commitB,      \* branches: the two files as committed on branch B
    driverRan,    \* branches: the files the merge driver has merged
    proc,         \* race: each process's position, dict and temporary file
    renamed,      \* race: the processes in the order of their renames
    argFiles,     \* merge driver in steps: the files at its three paths
    driver        \* merge driver in steps: its position and its locals

storeVars == <<dirExists, todosFile, closedFile, clock, exit, printed>>
crashVars == <<pc, run>>
mergeVars == <<snapBase, snapA, snapB, oursAB, oursBA, merged>>
resolveVars == <<argTodos, argNeedle, resolved>>
roundVars == <<rtDict, rtText, rtLoaded>>
branchVars == <<phase, forkBase, commitA, commitB, driverRan>>
raceVars == <<proc, renamed>>
driverVars == <<argFiles, driver>>
notStore == <<mergeVars, resolveVars, roundVars, branchVars, raceVars,
              driverVars>>
vars == <<storeVars, crashVars, mergeVars, resolveVars, roundVars, branchVars,
          raceVars, driverVars>>

\* the open and the closed partition as the commands read them
OpenSet == LoadTodos(todosFile)
ClosedSet == LoadTodos(closedFile)

\* stdout of a command that prints nothing, and of cmd_init
Nothing == <<>>
Initialized == <<"initialized todo">>

\* no store yet: the state before `todo init`
StoreInit ==
    /\ dirExists = FALSE
    /\ todosFile = NoFile
    /\ closedFile = NoFile
    /\ clock = 0
    /\ exit = "ok"
    /\ printed = Nothing

\* no command in flight
NoRun == [before |-> <<NoFile, NoFile>>, after |-> <<NoFile, NoFile>>]
CrashIdle == pc = "idle" /\ run = NoRun

\* the merge driver is not in use
MergeIdle ==
    /\ snapBase = NoFile /\ snapA = NoFile /\ snapB = NoFile
    /\ oursAB = NoFile /\ oursBA = NoFile /\ merged = {}

\* resolve_id is not in use on its own
NotResolved == [err |-> "none", id |-> <<>>, listed |-> <<>>]
ResolveIdle ==
    /\ argTodos = EmptyTodos /\ argNeedle = <<>> /\ resolved = NotResolved

\* write_todos and load_todos are not in use on their own
NotWritten == [exists |-> FALSE, text |-> <<>>]
NotLoaded == [done |-> FALSE, failed |-> FALSE, todos |-> EmptyTodos]
RoundIdle ==
    /\ rtDict = EmptyTodos /\ rtText = NotWritten /\ rtLoaded = NotLoaded

\* no branches: the commands work on one line of history
NoCommit == <<NoFile, NoFile>>
BranchIdle ==
    /\ phase = "one branch" /\ forkBase = NoCommit /\ commitA = NoCommit
    /\ commitB = NoCommit /\ driverRan = {}

\* the two racing processes
Procs == {1, 2}
\* a process that has not started
NotStarted == [pc |-> "start", loaded |-> EmptyTodos, todos |-> EmptyTodos,
               closed |-> EmptyTodos, temp |-> NoFile, after |-> {}]
\* one command at a time: no process races
RaceIdle == proc = [p \in Procs |-> NotStarted] /\ renamed = <<>>

\* the merge driver before its first statement
NotCalled == [pc |-> "start", base |-> EmptyTodos, ours |-> EmptyTodos,
              theirs |-> EmptyTodos, left |-> {}, merged |-> EmptyTodos,
              tmp |-> NotWritten, written |-> <<>>, before |-> NotWritten]
\* the merge driver is not run in steps
DriverIdle ==
    /\ argFiles = [base |-> NotWritten, ours |-> NotWritten,
                   theirs |-> NotWritten, oursDir |-> ""]
    /\ driver = NotCalled

Init ==
    /\ StoreInit /\ CrashIdle /\ MergeIdle /\ ResolveIdle /\ RoundIdle
    /\ BranchIdle /\ RaceIdle /\ DriverIdle

\* time passes between commands
Tick ==
    /\ clock < MaxClock
    /\ clock' = clock + 1
    /\ UNCHANGED <<dirExists, todosFile, closedFile, exit, printed, crashVars,
                   notStore>>

\* die(): the message goes to stderr and the process ends with status 1
\* before any write
Die(msg) ==
    /\ exit' = msg
    /\ printed' = Nothing
    /\ UNCHANGED <<dirExists, todosFile, closedFile, clock, crashVars, notStore>>

\* CmdInit writing two empty files whether or not they exist
CmdInitFresh ==
    /\ dirExists' = TRUE
    /\ todosFile' = WriteTodos(EmptyTodos)
    /\ closedFile' = WriteTodos(EmptyTodos)
    /\ exit' = "ok"
    /\ printed' = Initialized
    /\ UNCHANGED <<clock, crashVars, notStore>>

CmdInit ==
    /\ dirExists' = TRUE
    /\ todosFile' = IF todosFile.exists THEN todosFile ELSE WriteTodos(EmptyTodos)
    /\ closedFile' = IF closedFile.exists THEN closedFile ELSE WriteTodos(EmptyTodos)
    /\ exit' = "ok"
    /\ printed' = Initialized
    /\ UNCHANGED <<clock, crashVars, notStore>>

\* CmdNew keeping the record an id already has in todos.jsonl
CmdNewKeepExisting(title, uid) ==
    IF ~dirExists THEN Die("not initialized")
    ELSE LET todos == LoadTodos(todosFile)
             after == IF uid \in DOMAIN todos THEN todos
                      ELSE Put(todos, uid, NewItem(uid, title, clock))
         IN /\ Cardinality(DOMAIN after) + Len(closedFile.lines) <= MaxItems
            /\ todosFile' = WriteTodos(after)
            /\ exit' = "ok"
            /\ printed' = uid
            /\ UNCHANGED <<dirExists, closedFile, clock, crashVars, notStore>>

\* uid is the draw of uuid4: any id, one already in use included.  The
\* first conjunct keeps the store within MaxItems records.
CmdNew(title, uid) ==
    IF ~dirExists THEN Die("not initialized")
    ELSE LET todos == LoadTodos(todosFile)
             after == Put(todos, uid, NewItem(uid, title, clock))
         IN /\ Cardinality(DOMAIN after) + Len(closedFile.lines) <= MaxItems
            /\ todosFile' = WriteTodos(after)
            /\ exit' = "ok"
            /\ printed' = uid
            /\ UNCHANGED <<dirExists, closedFile, clock, crashVars, notStore>>

\* DepItem adding the edge without setting updated_at
DepItemNoStamp(item, parent, t) ==
    IF parent \in Range(item.deps) THEN item
    ELSE [item EXCEPT !.deps = AppendSorted(item.deps, parent)]

\* the child's record as cmd_dep leaves it: untouched if the edge is there
DepItem(item, parent, t) ==
    IF parent \in Range(item.deps) THEN item
    ELSE [item EXCEPT !.deps = AppendSorted(item.deps, parent),
                      !.updated_at = t]

\* the record as cmd_summary leaves it
SummaryItem(item, text, t) == [item EXCEPT !.summary = text, !.updated_at = t]

\* ClosedItem leaving the status as it is
ClosedItemStatusKept(item, t) == [item EXCEPT !.updated_at = t]

\* the record cmd_close moves: status and updated_at set
ClosedItem(item, t) == [item EXCEPT !.status = "closed", !.updated_at = t]

CmdClose(needle) ==
    IF ~dirExists THEN Die("not initialized")
    ELSE LET todos == LoadTodos(todosFile)
             r == ResolveId(todos, needle)
         IN IF r.err # "ok" THEN Die(r.err)
            ELSE LET closed == LoadTodos(closedFile)
                     item == ClosedItem(todos[r.id], clock)
                 IN /\ todosFile' = WriteTodos(Del(todos, r.id))
                    /\ closedFile' = WriteTodos(Put(closed, r.id, item))
                    /\ exit' = "ok"
                    /\ printed' = Nothing
                    /\ UNCHANGED <<dirExists, clock, crashVars, notStore>>

\* CmdDep storing the parent argument as typed, without resolving it
CmdDepRawParent(child, parent) ==
    IF ~dirExists THEN Die("not initialized")
    ELSE LET todos == LoadTodos(todosFile)
             c == ResolveId(todos, child)
         IN IF c.err # "ok" THEN Die(c.err)
            ELSE LET old == todos[c.id]
                     new == IF parent \in Range(old.deps) THEN old
                            ELSE [old EXCEPT
                                    !.deps = AppendSorted(old.deps, parent),
                                    !.updated_at = clock]
                 IN /\ todosFile' = WriteTodos(Put(todos, c.id, new))
                    /\ exit' = "ok"
                    /\ printed' = Nothing
                    /\ UNCHANGED <<dirExists, closedFile, clock,
                                   crashVars, notStore>>

CmdDep(child, parent) ==
    IF ~dirExists THEN Die("not initialized")
    ELSE LET todos == LoadTodos(todosFile)
             c == ResolveId(todos, child)
         IN IF c.err # "ok" THEN Die(c.err)
            ELSE LET p == ResolveId(todos, parent)
                 IN IF p.err # "ok" THEN Die(p.err)
                    ELSE LET new == DepItem(todos[c.id], p.id, clock)
                         IN /\ todosFile' = WriteTodos(Put(todos, c.id, new))
                            /\ exit' = "ok"
                            /\ printed' = Nothing
                            /\ UNCHANGED <<dirExists, closedFile, clock,
                                           crashVars, notStore>>

CmdSummary(needle, text) ==
    IF ~dirExists THEN Die("not initialized")
    ELSE LET todos == LoadTodos(todosFile)
             r == ResolveId(todos, needle)
         IN IF r.err # "ok" THEN Die(r.err)
            ELSE LET item == SummaryItem(todos[r.id], text, clock)
                 IN /\ todosFile' = WriteTodos(Put(todos, r.id, item))
                    /\ exit' = "ok"
                    /\ printed' = Nothing
                    /\ UNCHANGED <<dirExists, closedFile, clock,
                                   crashVars, notStore>>

\* commands run to completion, one after another, while time passes
Next ==
    \/ Tick
    \/ CmdInit
    \/ \E title \in Titles, uid \in NewIds : CmdNew(title, uid)
    \/ \E needle \in Needles : CmdClose(needle)
    \/ \E child \in Needles, parent \in Needles : CmdDep(child, parent)
    \/ \E needle \in Needles, text \in Texts : CmdSummary(needle, text)

Spec == Init /\ [][Next]_vars

\* the same commands within one second of the clock.  No command reads the
\* clock or an updated_at for a decision (only cmd_merge compares them), so
\* the files reachable here are those reachable under Spec with every
\* updated_at set to 0; what does not mention time is checked here.
NextStore ==
    \/ CmdInit
    \/ \E title \in Titles, uid \in NewIds : CmdNew(title, uid)
    \/ \E needle \in Needles : CmdClose(needle)
    \/ \E child \in Needles, parent \in Needles : CmdDep(child, parent)
    \/ \E needle \in Needles, text \in Texts : CmdSummary(needle, text)

SpecStore == Init /\ [][NextStore]_vars

(***************************************************************************)
(* Readiness and the two partitions (SpecStore).                           *)
(***************************************************************************)
\* what `todo ready` prints in the current state
ReadyNow == Range(ReadyIds(OpenSet))

\* C1: an open item whose deps is [X] is listed by `ready` if and only if X
\* is a closed item, i.e. a record of the closed partition with status
\* closed.
C1_ReadyIffDepClosed ==
    \A k \in DOMAIN OpenSet :
        Len(OpenSet[k].deps) = 1 =>
            LET x == OpenSet[k].deps[1]
            IN (k \in ReadyNow) <=>
                   (x \in DOMAIN ClosedSet /\ ClosedSet[x].status = "closed")

\* C2: every record of the open partition with empty deps is listed by
\* `ready`, and `ready` lists nothing that is not in the open partition.
C2_EmptyDepsReady ==
    /\ \A k \in DOMAIN OpenSet : OpenSet[k].deps = <<>> => k \in ReadyNow
    /\ ReadyNow \subseteq DOMAIN OpenSet

\* C2 witness: an open item without deps is listed next to an open item
\* with deps that is not.
C2_Witness ==
    /\ \E k \in DOMAIN OpenSet : OpenSet[k].deps = <<>> /\ k \in ReadyNow
    /\ \E j \in DOMAIN OpenSet : OpenSet[j].deps # <<>> /\ j \notin ReadyNow

\* C3: no id is in the open and in the closed partition at once.
C3_PartitionsDisjoint == DOMAIN OpenSet \cap DOMAIN ClosedSet = {}

(***************************************************************************)
(* Failing commands (SpecStore).                                           *)
(***************************************************************************)
\* the argument names no single record of the open partition: it is no key
\* and the number of keys it is a prefix of is not one
IdFails(needle) ==
    /\ needle \notin DOMAIN OpenSet
    /\ Cardinality({t \in DOMAIN OpenSet : StartsWith(t, needle)}) # 1

\* the command ended with a diagnostic and both files are as they were
FailedClean ==
    /\ exit' \in {"not initialized", "unknown id", "ambiguous id"}
    /\ UNCHANGED <<todosFile, closedFile>>

\* the store is not initialized or the argument names no single record
CannotRun(needle) == ~dirExists \/ IdFails(needle)

\* C10: close, dep and summary on a store that is not initialized, or with
\* an id argument that is unknown or ambiguous (for dep: the child or the
\* parent), end with an error and change neither file.  (Every step is
\* such a clean failure, or else it is no run of close, dep or summary with
\* an argument that cannot run.)
C10_FailedCommandWritesNothing ==
    [][\/ FailedClean
       \/ LET bad == {n \in Needles : CannotRun(n)}
          IN /\ \A n \in bad : ~CmdClose(n)
             /\ \A n \in Needles, m \in Needles :
                   (n \in bad \/ m \in bad) => ~CmdDep(n, m)
             /\ \A n \in bad, x \in Texts : ~CmdSummary(n, x)
      ]_vars

\* C10 witness: a command has just failed on an ambiguous id in a store that
\* holds two open records.
C10_Witness ==
    /\ exit = "ambiguous id"
    /\ Cardinality(DOMAIN OpenSet) = 2

(***************************************************************************)
(* resolve_id on its own (SpecResolve): any dict of at most MaxKeys ids of *)
(* any length up to MaxKeyLen, any needle.                                 *)
(***************************************************************************)
\* the strings of at most n hex digits
HexStrings(n) == UNION {[1..k -> Hex] : k \in 0..n}

\* the dicts resolve_id is tried on: each record is stored under its id
ResolveDicts ==
    {[k \in S |-> NewItem(k, "t", 0)] :
        S \in {T \in SUBSET (HexStrings(MaxKeyLen) \ {<<>>}) :
                   Cardinality(T) <= MaxKeys}}

ResolveInit ==
    /\ argTodos \in ResolveDicts
    /\ argNeedle \in HexStrings(MaxKeyLen)
    /\ resolved = NotResolved

\* the call resolve_id(argTodos, argNeedle)
CallResolveId ==
    /\ resolved = NotResolved
    /\ resolved' = ResolveId(argTodos, argNeedle)
    /\ UNCHANGED <<argTodos, argNeedle, storeVars, crashVars, mergeVars,
                   roundVars, branchVars, raceVars, driverVars>>

InitResolve ==
    /\ StoreInit /\ CrashIdle /\ MergeIdle /\ RoundIdle /\ BranchIdle
    /\ RaceIdle /\ DriverIdle /\ ResolveInit
NextResolve == CallResolveId
SpecResolve == InitResolve /\ [][NextResolve]_vars

\* the ids of the dict that start with the needle
Matches == {t \in DOMAIN argTodos : StartsWith(t, argNeedle)}

\* C8: a needle that is a key of the dict resolves to itself, also when
\* other keys start with it.
C8_ExactMatchWins ==
    (resolved # NotResolved /\ argNeedle \in DOMAIN argTodos) =>
        (resolved.err = "ok" /\ resolved.id = argNeedle)

\* C8 witness: the needle is a key, another key starts with it, and
\* resolve_id has returned.
C8_Witness ==
    /\ resolved # NotResolved
    /\ argNeedle \in DOMAIN argTodos
    /\ \E t \in DOMAIN argTodos : t # argNeedle /\ StartsWith(t, argNeedle)

\* C9: for a needle that is no key, with M the keys that start with it:
\* unknown id if M is empty, the element of M if it has one, and ambiguous
\* id listing all of M in ascending order if it has two or more.
C9_PrefixResolution ==
    (resolved # NotResolved /\ argNeedle \notin DOMAIN argTodos) =>
        /\ Matches = {} => resolved.err = "unknown id"
        /\ Cardinality(Matches) = 1 =>
              (resolved.err = "ok" /\ resolved.id \in Matches)
        /\ Cardinality(Matches) >= 2 =>
              /\ resolved.err = "ambiguous id"
              /\ Range(resolved.listed) = Matches
              /\ Len(resolved.listed) = Cardinality(Matches)
              /\ \A i \in 1..Len(resolved.listed), j \in 1..Len(resolved.listed) :
                    i < j => StrLess(resolved.listed[i], resolved.listed[j])

\* C9 witness: two of three keys start with a needle that is no key, and
\* resolve_id has reported both.
C9_Witness ==
    /\ resolved.err = "ambiguous id"
    /\ Len(resolved.listed) = 2
    /\ Cardinality(DOMAIN argTodos) = 3
    /\ argNeedle # <<>>

(***************************************************************************)
(* The merge driver on its own (SpecMerge): any three files, merged once   *)
(* on branch A (ours = A, theirs = B) and once on branch B (ours = B,      *)
(* theirs = A).                                                            *)
(***************************************************************************)
\* the records a snapshot may hold under id k
SnapRecords(k, texts) ==
    {[NewItem(k, "t", t) EXCEPT !.summary = x] : t \in 0..MaxClock, x \in texts}

\* the snapshots over the ids of NewIds
Snapshots(texts) ==
    UNION {{d \in [S -> UNION {SnapRecords(k, texts) : k \in S}] :
                \A k \in S : d[k].id = k} : S \in SUBSET NewIds}

MergeInit ==
    /\ snapBase \in {WriteTodos(d) : d \in Snapshots({""})}
    /\ snapA \in {WriteTodos(d) : d \in Snapshots({""} \cup Texts)}
    /\ snapB \in {WriteTodos(d) : d \in Snapshots({""} \cup Texts)}
    /\ oursAB = snapA
    /\ oursBA = snapB
    /\ merged = {}

\* branch A runs `todo merge base A B`
MergeOnA ==
    /\ "AB" \notin merged
    /\ oursAB' = CmdMerge(snapBase, oursAB, snapB)
    /\ merged' = merged \cup {"AB"}
    /\ UNCHANGED <<snapBase, snapA, snapB, oursBA,
                   storeVars, crashVars, resolveVars, roundVars, branchVars,
                   raceVars, driverVars>>

\* branch B runs `todo merge base B A`
MergeOnB ==
    /\ "BA" \notin merged
    /\ oursBA' = CmdMerge(snapBase, oursBA, snapA)
    /\ merged' = merged \cup {"BA"}
    /\ UNCHANGED <<snapBase, snapA, snapB, oursAB,
                   storeVars, crashVars, resolveVars, roundVars, branchVars,
                   raceVars, driverVars>>

InitMerge ==
    /\ StoreInit /\ CrashIdle /\ ResolveIdle /\ RoundIdle /\ BranchIdle
    /\ RaceIdle /\ DriverIdle /\ MergeInit
NextMerge == MergeOnA \/ MergeOnB
SpecMerge == InitMerge /\ [][NextMerge]_vars

\* the three inputs and the result of the merge on branch A, as dicts
DictBase == LoadTodos(snapBase)
DictA == LoadTodos(snapA)
DictB == LoadTodos(snapB)
ResultAB == LoadTodos(oursAB)
ResultBA == LoadTodos(oursBA)

\* the result holds, for each id of both sides, the whole record of the side
\* with the strictly greater updated_at, and ours's record on a tie
WholeRecordWins(ours, theirs, result) ==
    \A k \in DOMAIN ours \cap DOMAIN theirs :
        /\ k \in DOMAIN result
        /\ theirs[k].updated_at > ours[k].updated_at => result[k] = theirs[k]
        /\ ours[k].updated_at > theirs[k].updated_at => result[k] = ours[k]
        /\ ours[k].updated_at = theirs[k].updated_at => result[k] = ours[k]
        /\ result[k] \in {ours[k], theirs[k]}

\* C5: for every id of both ours and theirs the merged snapshot holds the
\* whole record with the strictly greater updated_at, and ours's record
\* when the two are equal; it is never a mixture of the two.
C5_LastWriterWins ==
    /\ "AB" \in merged => WholeRecordWins(DictA, DictB, ResultAB)
    /\ "BA" \in merged => WholeRecordWins(DictB, DictA, ResultBA)

\* C5 witness: merged on A, where one id has a tie between two different
\* records and the other id is newer in theirs.
C5_Witness ==
    /\ "AB" \in merged
    /\ \E k \in DOMAIN DictA \cap DOMAIN DictB :
          DictA[k].updated_at = DictB[k].updated_at /\ DictA[k] # DictB[k]
    /\ \E k \in DOMAIN DictA \cap DOMAIN DictB :
          DictA[k].updated_at < DictB[k].updated_at

\* the ids of the result are those of ours and theirs, a one-sided id
\* keeping the record of its side
UnionOfSides(ours, theirs, result) ==
    /\ DOMAIN result = DOMAIN ours \cup DOMAIN theirs
    /\ \A k \in DOMAIN ours \ DOMAIN theirs : result[k] = ours[k]
    /\ \A k \in DOMAIN theirs \ DOMAIN ours : result[k] = theirs[k]

\* C6: the ids of the merged snapshot are the union of the ids of ours and
\* theirs; an id of base alone is dropped, an id of ours alone keeps ours's
\* record and an id of theirs alone takes theirs's, whatever base holds.
C6_UnionOfSides ==
    /\ "AB" \in merged => UnionOfSides(DictA, DictB, ResultAB)
    /\ "BA" \in merged => UnionOfSides(DictB, DictA, ResultBA)

\* C6 witness: merged on A, where one id is in base alone and the other is
\* in base and ours but not in theirs.
C6_Witness ==
    /\ "AB" \in merged
    /\ \E k \in DOMAIN DictBase : k \notin DOMAIN DictA \cup DOMAIN DictB
    /\ \E k \in DOMAIN DictBase \cap DOMAIN DictA :
          k \notin DOMAIN DictB /\ k \in DOMAIN ResultAB

\* C7: once both branches have merged, they hold the same snapshot.
C7_MergeConverges ==
    merged = {"AB", "BA"} => oursAB = oursBA

(***************************************************************************)
(* A process that stops (SpecCrash).  write_todos replaces one file by one *)
(* rename, so a command with one write_todos call either has or has not    *)
(* taken effect when its process stops.  cmd_close calls write_todos       *)
(* twice, and its process can stop between the two renames.                *)
(***************************************************************************)
\* cmd_close up to and including write_todos(todos, todos_file)
CloseWriteTodos(needle) ==
    /\ pc = "idle"
    /\ IF ~dirExists THEN Die("not initialized")
       ELSE LET todos == LoadTodos(todosFile)
                r == ResolveId(todos, needle)
            IN IF r.err # "ok" THEN Die(r.err)
               ELSE LET closed == LoadTodos(closedFile)
                        item == ClosedItem(todos[r.id], clock)
                        todosAfter == WriteTodos(Del(todos, r.id))
                        closedAfter == WriteTodos(Put(closed, r.id, item))
                    IN /\ todosFile' = todosAfter
                       /\ pc' = "close: todos written"
                       /\ run' = [before |-> <<todosFile, closedFile>>,
                                  after |-> <<todosAfter, closedAfter>>]
                       /\ UNCHANGED <<dirExists, closedFile, clock, exit,
                                      printed, notStore>>

\* cmd_close: write_todos(closed, closed_file) and the end of the process
CloseWriteClosed ==
    /\ pc = "close: todos written"
    /\ closedFile' = run.after[2]
    /\ pc' = "idle"
    /\ run' = NoRun
    /\ exit' = "ok"
    /\ printed' = Nothing
    /\ UNCHANGED <<dirExists, todosFile, clock, notStore>>

\* the process of cmd_close is killed between its two write_todos calls
Crash ==
    /\ pc = "close: todos written"
    /\ pc' = "crashed"
    /\ exit' = "killed"
    /\ printed' = Nothing
    /\ UNCHANGED <<dirExists, todosFile, closedFile, clock, run, notStore>>

\* the user goes on after the crash
Restart ==
    /\ pc = "crashed"
    /\ pc' = "idle"
    /\ run' = NoRun
    /\ UNCHANGED <<storeVars, notStore>>

NextCrash ==
    \/ pc = "idle" /\ Tick
    \/ pc = "idle" /\ CmdInit
    \/ \E title \in Titles, uid \in NewIds : pc = "idle" /\ CmdNew(title, uid)
    \/ \E child \in Needles, parent \in Needles :
           pc = "idle" /\ CmdDep(child, parent)
    \/ \E needle \in Needles, text \in Texts :
           pc = "idle" /\ CmdSummary(needle, text)
    \/ \E needle \in Needles : CloseWriteTodos(needle)
    \/ CloseWriteClosed
    \/ Crash
    \/ Restart

SpecCrash == Init /\ [][NextCrash]_vars

\* C4: when the process of a command has stopped, the two files are as they
\* were before the command or as the complete command leaves them, and no
\* record the open partition held before is missing from both partitions.
C4_AllOrNothing ==
    pc = "crashed" =>
        /\ <<todosFile, closedFile>> \in {run.before, run.after}
        /\ DOMAIN LoadTodos(run.before[1])
               \subseteq DOMAIN OpenSet \cup DOMAIN ClosedSet

(***************************************************************************)
(* write_todos and load_todos down to the text of the file                 *)
(* (SpecRoundTrip).  The commands above keep each line of a file as the    *)
(* object its JSON text denotes; here the text is a list of tokens, a JSON *)
(* document or a newline, and a document is the list of its members.       *)
(***************************************************************************)
\* the keys of a record, in the order cmd_new inserts them: json.dumps
\* writes the members in this order
Fields == <<"id", "title", "summary", "status", "deps", "updated_at">>

\* JsonDumps leaving out an empty summary and an empty deps list
JsonDumpsSkipEmpty(obj) ==
    SelectSeq([i \in 1..Len(Fields) |-> <<Fields[i], obj[Fields[i]]>>],
              LAMBDA m : ~(\/ (m[1] = "summary" /\ m[2] = "")
                           \/ (m[1] = "deps" /\ m[2] = <<>>)))

\* json.dumps(obj, separators=(",", ":")): the members "key":value
JsonDumps(obj) == [i \in 1..Len(Fields) |-> <<Fields[i], obj[Fields[i]]>>]

\* json.loads: the dict of the members, a later member replacing an earlier
\* one of the same key
JsonLoads(doc) ==
    [f \in {doc[i][1] : i \in 1..Len(doc)} |->
        doc[CHOOSE i \in 1..Len(doc) :
                /\ doc[i][1] = f
                /\ \A j \in (i + 1)..Len(doc) : doc[j][1] # f][2]]

\* the two kinds of token of a file
Newline == [nl |-> TRUE, doc |-> <<>>]
Doc(d) == [nl |-> FALSE, doc |-> d]

RECURSIVE WriteLines(_, _)
\* the loop of write_todos: f.write(json.dumps(todos[_id]) + "\n")
WriteLines(todos, ks) ==
    IF ks = <<>> THEN <<>>
    ELSE <<Doc(JsonDumps(todos[Head(ks)])), Newline>>
             \o WriteLines(todos, Tail(ks))

\* write_todos, the text it leaves at the path
WriteTodosText(todos) ==
    [exists |-> TRUE, text |-> WriteLines(todos, SortedSeq(DOMAIN todos))]

RECURSIVE SplitLines(_)
\* `for line in f`: the runs of tokens up to each newline, and the run after
\* the last newline if it is not empty
SplitLines(text) ==
    IF text = <<>> THEN <<>>
    ELSE LET ends == {i \in 1..Len(text) : text[i].nl}
             n == IF ends = {} THEN Len(text) + 1
                  ELSE CHOOSE i \in ends : \A j \in ends : i <= j
         IN <<SubSeq(text, 1, n - 1)>>
                \o SplitLines(SubSeq(text, n + 1, Len(text)))

\* load_todos on the text: a missing file is the empty dict, a blank line is
\* skipped, a line that is not one JSON document with an "id" member raises
LoadTodosText(file) ==
    IF ~file.exists THEN [done |-> TRUE, failed |-> FALSE, todos |-> EmptyTodos]
    ELSE LET lines == SelectSeq(SplitLines(file.text), LAMBDA l : l # <<>>)
             objs == [i \in 1..Len(lines) |-> JsonLoads(lines[i][1].doc)]
             raises == \E i \in 1..Len(lines) :
                           Len(lines[i]) # 1 \/ "id" \notin DOMAIN objs[i]
         IN IF raises
            THEN [done |-> TRUE, failed |-> TRUE, todos |-> EmptyTodos]
            ELSE [done |-> TRUE, failed |-> FALSE,
                  todos |->
                      [k \in {objs[i].id : i \in 1..Len(objs)} |->
                          objs[CHOOSE i \in 1..Len(objs) :
                                   /\ objs[i].id = k
                                   /\ \A j \in (i + 1)..Len(objs) :
                                         objs[j].id # k]]]

\* the records tried under key k: any summary, deps, status and time, and
\* an "id" that is k or another id
RoundRecords ==
    {[id |-> i, title |-> "t", summary |-> x, status |-> st, deps |-> d,
      updated_at |-> t] :
        i \in NewIds, x \in {""} \cup Texts, st \in {"open", "closed"},
        d \in {<<>>} \cup {<<p>> : p \in NewIds}, t \in 0..MaxClock}

\* the dicts handed to write_todos
RoundDicts == UNION {[S -> RoundRecords] : S \in SUBSET NewIds}

RoundInit ==
    /\ rtDict \in RoundDicts
    /\ rtText = NotWritten
    /\ rtLoaded = NotLoaded

\* write_todos(rtDict, path)
RoundWrite ==
    /\ ~rtText.exists
    /\ rtText' = WriteTodosText(rtDict)
    /\ UNCHANGED <<rtDict, rtLoaded, storeVars, crashVars, mergeVars,
                   resolveVars, branchVars, raceVars, driverVars>>

\* load_todos(path)
RoundLoad ==
    /\ rtText.exists
    /\ ~rtLoaded.done
    /\ rtLoaded' = LoadTodosText(rtText)
    /\ UNCHANGED <<rtDict, rtText, storeVars, crashVars, mergeVars,
                   resolveVars, branchVars, raceVars, driverVars>>

InitRoundTrip ==
    /\ StoreInit /\ CrashIdle /\ MergeIdle /\ ResolveIdle /\ BranchIdle
    /\ RaceIdle /\ DriverIdle /\ RoundInit
NextRoundTrip == RoundWrite \/ RoundLoad
SpecRoundTrip == InitRoundTrip /\ [][NextRoundTrip]_vars

\* every record is stored under its own id
KeyedById(m) == \A k \in DOMAIN m : m[k].id = k

\* C11: for a dict whose keys are the ids of its records, write_todos
\* followed by load_todos returns an equal dict, records with empty deps
\* and empty summary and the empty dict included; the list of records the
\* commands keep for the file gives the same dict.
C11_RoundTrip ==
    (rtLoaded.done /\ KeyedById(rtDict)) =>
        /\ ~rtLoaded.failed
        /\ rtLoaded.todos = rtDict
        /\ LoadTodos(WriteTodos(rtDict)) = rtDict

\* C11 witness: a dict of two records, one with empty deps and empty
\* summary, has been written and loaded.
C11_Witness ==
    /\ rtLoaded.done
    /\ KeyedById(rtDict)
    /\ Cardinality(DOMAIN rtDict) = 2
    /\ \E k \in DOMAIN rtDict : rtDict[k].deps = <<>> /\ rtDict[k].summary = ""
    /\ \E k \in DOMAIN rtDict : rtDict[k].deps # <<>> /\ rtDict[k].summary # ""

(***************************************************************************)
(* init on a store that exists (SpecStore).                                *)
(***************************************************************************)
\* the directory and both files are there
Initialised == dirExists /\ todosFile.exists /\ closedFile.exists

\* C12: `init` leaves the records of both partitions as they were, leaves
\* the two files as they were when both exist, and ends in a store on which
\* a further `init` changes nothing: twice in a row is the same as once.
C12_InitIdempotent ==
    [][CmdInit =>
          /\ Initialised'
          /\ LoadTodos(todosFile') = OpenSet
          /\ LoadTodos(closedFile') = ClosedSet
          /\ (todosFile.exists /\ closedFile.exists) =>
                 UNCHANGED <<todosFile, closedFile>>
          /\ Initialised => UNCHANGED <<dirExists, todosFile, closedFile>>
      ]_vars

\* C12 witness: `init` has just run on a store with a record in each
\* partition.
C12_Witness ==
    /\ printed = Initialized
    /\ OpenSet # EmptyTodos
    /\ ClosedSet # EmptyTodos

(***************************************************************************)
(* new and the id it prints (SpecStore).                                   *)
(***************************************************************************)
\* the last command was a `new` that succeeded, and printed its id
NewReturned == exit = "ok" /\ printed \in NewIds

\* C13: after a successful `new` the open partition has a record under the
\* printed id with status open, empty deps and empty summary, and resolve_id
\* on the open partition with that full id returns that id.
C13_NewCreatesOpenItem ==
    NewReturned =>
        /\ printed \in DOMAIN OpenSet
        /\ OpenSet[printed].id = printed
        /\ OpenSet[printed].status = "open"
        /\ OpenSet[printed].deps = <<>>
        /\ OpenSet[printed].summary = ""
        /\ ResolveId(OpenSet, printed).err = "ok"
        /\ ResolveId(OpenSet, printed).id = printed

\* C13 witness: `new` has just printed an id while another open record,
\* whose id starts with the same characters, has deps and a summary.
C13_Witness ==
    /\ NewReturned
    /\ \E k \in DOMAIN OpenSet :
           /\ k # printed
           /\ OpenSet[k].deps # <<>>
           /\ OpenSet[k].summary # ""


\* the step is a `new` that succeeds and prints its id
NewStep ==
    /\ NewReturned'
    /\ \E title \in Titles : CmdNew(title, printed')

\* C14: a successful `new` prints an id that was in neither partition, adds
\* exactly one record to the open partition and leaves every record that
\* was in either partition as it was.
C14_IdsUnique ==
    [][NewStep =>
          /\ printed' \notin DOMAIN OpenSet \cup DOMAIN ClosedSet
          /\ DOMAIN LoadTodos(todosFile') = DOMAIN OpenSet \cup {printed'}
          /\ \A k \in DOMAIN OpenSet : LoadTodos(todosFile')[k] = OpenSet[k]
          /\ LoadTodos(closedFile') = ClosedSet
      ]_vars


(***************************************************************************)
(* Closed records stay as they are (SpecStore).                            *)
(***************************************************************************)
\* C15: once `close` has put a record into the closed partition, no command
\* changes that record or puts a record of its id into the open partition.
C15_ClosedForGood ==
    [][\A k \in DOMAIN ClosedSet :
          /\ k \in DOMAIN LoadTodos(closedFile')
          /\ LoadTodos(closedFile')[k] = ClosedSet[k]
          /\ k \notin DOMAIN LoadTodos(todosFile')
      ]_vars


(***************************************************************************)
(* dep on a parent that is nowhere (SpecStore).                            *)
(***************************************************************************)
\* p is neither an id nor the prefix of an id of either partition
MatchesNoItem(p) ==
    \A k \in DOMAIN OpenSet \cup DOMAIN ClosedSet : ~StartsWith(k, p)

\* C16: after `new` has printed id I, `dep` with child I and a parent P that
\* matches no item records P in the deps of I, and `ready` then does not
\* list I.
C16_DanglingDepRecorded ==
    [][NewReturned =>
          \A p \in Needles :
              (MatchesNoItem(p) /\ CmdDep(printed, p)) =>
                  /\ p \in Range(LoadTodos(todosFile')[printed].deps)
                  /\ printed \notin Range(ReadyIds(LoadTodos(todosFile')))
      ]_vars


(***************************************************************************)
(* updated_at (SpecTimed: the clock moves between commands).               *)
(***************************************************************************)
\* the two files hold fewer than MaxItems records
RoomLeft == Len(todosFile.lines) + Len(closedFile.lines) < MaxItems

\* the commands of Spec while the clock moves, on a store that `new` keeps
\* one record below MaxItems
NextTimed ==
    \/ Tick
    \/ CmdInit
    \/ \E title \in Titles, uid \in NewIds : CmdNew(title, uid) /\ RoomLeft'
    \/ \E needle \in Needles : CmdClose(needle)
    \/ \E child \in Needles, parent \in Needles : CmdDep(child, parent)
    \/ \E needle \in Needles, text \in Texts : CmdSummary(needle, text)

SpecTimed == Init /\ [][NextTimed]_vars

\* the partitions after the step
OpenAfter == LoadTodos(todosFile')
ClosedAfter == LoadTodos(closedFile')

\* the ids a command argument can name now
Targets == {n \in Needles : ResolveId(OpenSet, n).err = "ok"}
TargetOf(n) == ResolveId(OpenSet, n).id

\* the record of id k in todos.jsonl carries the time of this step
StampedOpen(k) == k \in DOMAIN OpenAfter /\ OpenAfter[k].updated_at = clock
\* the record of id k in closed.jsonl carries the time of this step
StampedClosed(k) ==
    k \in DOMAIN ClosedAfter /\ ClosedAfter[k].updated_at = clock

\* no record of either file has an earlier updated_at than the record of
\* its id had in that file before the step, or than the record had that
\* the step moved from todos.jsonl to closed.jsonl
NeverDecreases ==
    /\ \A k \in DOMAIN OpenAfter :
          /\ k \in DOMAIN OpenSet =>
                 OpenAfter[k].updated_at >= OpenSet[k].updated_at
    /\ \A k \in DOMAIN ClosedAfter :
          /\ k \in DOMAIN ClosedSet =>
                 ClosedAfter[k].updated_at >= ClosedSet[k].updated_at
          /\ (k \in DOMAIN OpenSet /\ k \notin DOMAIN OpenAfter) =>
                 ClosedAfter[k].updated_at >= OpenSet[k].updated_at

TargetStamped ==
    /\ \A uid \in NewIds, title \in Titles :
          NewItem(uid, title, clock).updated_at = clock
    /\ \A k \in DOMAIN OpenSet :
          /\ ClosedItem(OpenSet[k], clock).updated_at = clock
          /\ \A x \in Texts : SummaryItem(OpenSet[k], x, clock).updated_at = clock
          /\ \A p \in DOMAIN OpenSet :
                IF p \in Range(OpenSet[k].deps)
                THEN DepItem(OpenSet[k], p, clock) = OpenSet[k]
                ELSE DepItem(OpenSet[k], p, clock).updated_at = clock

\* every record the step wrote or changed carries the time of the step,
\* which is not lower than the updated_at the record had
WrittenStamped ==
    LET open == OpenSet
        closed == ClosedSet
        openAfter == OpenAfter
        closedAfter == ClosedAfter
    IN /\ \A k \in DOMAIN openAfter :
             \/ (k \in DOMAIN open /\ openAfter[k] = open[k])
             \/ /\ openAfter[k].updated_at = clock
                /\ k \in DOMAIN open =>
                       openAfter[k].updated_at >= open[k].updated_at
       /\ \A k \in DOMAIN closedAfter :
             \/ (k \in DOMAIN closed /\ closedAfter[k] = closed[k])
             \/ /\ closedAfter[k].updated_at = clock
                /\ k \in DOMAIN closed =>
                       closedAfter[k].updated_at >= closed[k].updated_at
                /\ (k \in DOMAIN open /\ k \notin DOMAIN openAfter) =>
                       closedAfter[k].updated_at >= open[k].updated_at

WorkTree == <<todosFile, closedFile>>

\* a command may run: before the fork, or on a branch that has not changed
\* its files yet
CanRun ==
    \/ phase = "before fork"
    \/ phase \in {"branch A", "branch B"} /\ WorkTree = forkBase

BranchInit ==
    /\ phase = "before fork" /\ forkBase = NoCommit /\ commitA = NoCommit
    /\ commitB = NoCommit /\ driverRan = {}

\* the two branches start from the committed working tree
Fork ==
    /\ phase = "before fork"
    /\ dirExists
    /\ phase' = "branch A"
    /\ forkBase' = WorkTree
    /\ UNCHANGED <<commitA, commitB, driverRan, storeVars, crashVars,
                   mergeVars, resolveVars, roundVars, raceVars, driverVars>>

\* git commit on branch A; git checkout of branch B, which is at forkBase
CommitA ==
    /\ phase = "branch A"
    /\ phase' = "branch B"
    /\ commitA' = WorkTree
    /\ todosFile' = forkBase[1]
    /\ closedFile' = forkBase[2]
    /\ UNCHANGED <<forkBase, commitB, driverRan, dirExists, clock, exit,
                   printed, crashVars, mergeVars, resolveVars, roundVars,
                   raceVars, driverVars>>

\* git commit on branch B; git checkout of branch A; git merge B begins
CommitB ==
    /\ phase = "branch B"
    /\ phase' = "merging"
    /\ commitB' = WorkTree
    /\ todosFile' = commitA[1]
    /\ closedFile' = commitA[2]
    /\ UNCHANGED <<forkBase, commitA, driverRan, dirExists, clock, exit,
                   printed, crashVars, mergeVars, resolveVars, roundVars,
                   raceVars, driverVars>>

\* the driver `todo.py merge %O %A %B` on todos.jsonl: cmd_merge writes the
\* merged dict to the ours path
DriverOnTodos ==
    /\ phase = "merging"
    /\ "todos.jsonl" \notin driverRan
    /\ todosFile' = CmdMerge(forkBase[1], todosFile, commitB[1])
    /\ driverRan' = driverRan \cup {"todos.jsonl"}
    /\ UNCHANGED <<phase, forkBase, commitA, commitB, dirExists, closedFile,
                   clock, exit, printed, crashVars, mergeVars, resolveVars,
                   roundVars, raceVars, driverVars>>

\* the driver on closed.jsonl
DriverOnClosed ==
    /\ phase = "merging"
    /\ "closed.jsonl" \notin driverRan
    /\ closedFile' = CmdMerge(forkBase[2], closedFile, commitB[2])
    /\ driverRan' = driverRan \cup {"closed.jsonl"}
    /\ UNCHANGED <<phase, forkBase, commitA, commitB, dirExists, todosFile,
                   clock, exit, printed, crashVars, mergeVars, resolveVars,
                   roundVars, raceVars, driverVars>>

InitBranch ==
    /\ StoreInit /\ CrashIdle /\ MergeIdle /\ ResolveIdle /\ RoundIdle
    /\ RaceIdle /\ DriverIdle /\ BranchInit

NextBranch ==
    \/ CanRun /\ CmdInit
    \/ \E title \in Titles, uid \in NewIds : CanRun /\ CmdNew(title, uid)
    \/ \E needle \in Needles : CanRun /\ CmdClose(needle)
    \/ \E child \in Needles, parent \in Needles :
           CanRun /\ CmdDep(child, parent)
    \/ \E needle \in Needles, text \in Texts :
           CanRun /\ CmdSummary(needle, text)
    \/ Fork
    \/ CommitA
    \/ CommitB
    \/ DriverOnTodos
    \/ DriverOnClosed

SpecBranch == InitBranch /\ [][NextBranch]_vars

\* no id is a key of both files of a commit
Disjoint(commit) ==
    DOMAIN LoadTodos(commit[1]) \cap DOMAIN LoadTodos(commit[2]) = {}

\* the merge is complete: the driver has run on both files
MergeDone == phase = "merging" /\ driverRan = {"todos.jsonl", "closed.jsonl"}

\* C18: two branches start from a store in which no id is in both
\* partitions and each ends in such a store; after the merge driver has run
\* on todos.jsonl and on closed.jsonl, no id is in both partitions of the
\* merged store.
C18_MergedPartitionsDisjoint ==
    (/\ MergeDone
     /\ Disjoint(forkBase) /\ Disjoint(commitA) /\ Disjoint(commitB)) =>
        Disjoint(WorkTree)


(***************************************************************************)
(* The deps lists (SpecStore).                                             *)
(***************************************************************************)
\* the list is strictly ascending in string order: sorted, no duplicates
Ascending(deps) ==
    \A i \in 1..Len(deps), j \in 1..Len(deps) :
        i < j => StrLess(deps[i], deps[j])

\* every record of both files has ascending deps
DepsAscending ==
    /\ \A k \in DOMAIN OpenSet : Ascending(OpenSet[k].deps)
    /\ \A k \in DOMAIN ClosedSet : Ascending(ClosedSet[k].deps)

\* a `dep` whose edge is already there leaves the deps of the child as they
\* were
RepeatedDepKeepsDeps ==
    \A n \in Targets, m \in Targets :
        TargetOf(m) \in Range(OpenSet[TargetOf(n)].deps) =>
            \/ /\ TargetOf(n) \in DOMAIN OpenAfter
               /\ OpenAfter[TargetOf(n)].deps = OpenSet[TargetOf(n)].deps
            \/ ~CmdDep(n, m)

\* C19: in every state reachable by commands the deps of every item have no
\* duplicate and are in ascending order, and `dep` with an edge that is
\* already present leaves the child's deps unchanged.
C19_DepsSortedNoDuplicates ==
    /\ []DepsAscending
    /\ [][RepeatedDepKeepsDeps]_vars

\* C19 witness: a record has two dependencies.
C19_Witness ==
    /\ exit = "ok"
    /\ \E k \in DOMAIN OpenSet : Len(OpenSet[k].deps) = 2


(***************************************************************************)
(* Two processes on todos.jsonl (SpecRace).  No lock is taken: each        *)
(* process loads the file, changes its own dict, writes a temporary file   *)
(* and renames it over todos.jsonl, and the steps of the two interleave.   *)
(***************************************************************************)
\* the dicts todos.jsonl may hold when the processes start: what `init`
\* and up to two `new` leave
RaceDicts ==
    {[k \in S |-> NewItem(k, "t", 0)] : S \in SUBSET NewIds}

RaceInit ==
    /\ dirExists = TRUE
    /\ todosFile \in {WriteTodos(d) : d \in RaceDicts}
    /\ closedFile = WriteTodos(EmptyTodos)
    /\ clock = 0
    /\ exit = "ok"
    /\ printed = Nothing
    /\ proc = [p \in Procs |-> NotStarted]
    /\ renamed = <<>>

\* what the race leaves alone
notRace ==
    <<dirExists, closedFile, clock, exit, printed, crashVars, mergeVars,
      resolveVars, roundVars, branchVars, driverVars>>

\* load_todos(todos_file); `after` keeps whose rename the load came after
RaceLoad(p) ==
    /\ proc[p].pc = "start"
    /\ proc' = [proc EXCEPT ![p] =
                   [@ EXCEPT !.pc = "loaded",
                             !.loaded = LoadTodos(todosFile),
                             !.todos = LoadTodos(todosFile),
                             !.after = Range(renamed)]]
    /\ UNCHANGED <<todosFile, renamed, notRace>>

\* cmd_new up to write_todos: the new record in the process's dict
RaceNew(p, title, uid) ==
    /\ proc[p].pc = "loaded"
    /\ proc' = [proc EXCEPT ![p] =
                   [@ EXCEPT !.pc = "changed",
                             !.todos = Put(@, uid, NewItem(uid, title, clock))]]
    /\ UNCHANGED <<todosFile, renamed, notRace>>

\* cmd_summary up to write_todos: die() ends the process, else the summary
\* is set in the process's dict
RaceSummary(p, needle, text) ==
    /\ proc[p].pc = "loaded"
    /\ LET r == ResolveId(proc[p].todos, needle)
       IN proc' = [proc EXCEPT ![p] =
                      IF r.err # "ok" THEN [@ EXCEPT !.pc = "died"]
                      ELSE [@ EXCEPT
                              !.pc = "changed",
                              !.todos = Put(@, r.id,
                                            SummaryItem(@[r.id], text, clock))]]
    /\ UNCHANGED <<todosFile, renamed, notRace>>

\* write_todos: mkstemp and the lines written to the temporary file
RaceWriteTemp(p) ==
    /\ proc[p].pc = "changed"
    /\ proc' = [proc EXCEPT ![p] =
                   [@ EXCEPT !.pc = "written",
                             !.temp = WriteTodos(proc[p].todos)]]
    /\ UNCHANGED <<todosFile, renamed, notRace>>

\* RaceRename adding its lines to those another process has saved meanwhile
RaceRenameKeepingOthers(p) ==
    /\ proc[p].pc = "written"
    /\ todosFile' =
           LET now == LoadTodos(todosFile)
               mine == LoadTodos(proc[p].temp)
           IN WriteTodos([k \in DOMAIN now \cup DOMAIN mine |->
                             IF k \in DOMAIN mine THEN mine[k] ELSE now[k]])
    /\ renamed' = Append(renamed, p)
    /\ proc' = [proc EXCEPT ![p] = [@ EXCEPT !.pc = "done"]]
    /\ UNCHANGED notRace

\* write_todos: shutil.move(tmp, path) replaces todos.jsonl in one step
RaceRename(p) ==
    /\ proc[p].pc = "written"
    /\ todosFile' = proc[p].temp
    /\ renamed' = Append(renamed, p)
    /\ proc' = [proc EXCEPT ![p] = [@ EXCEPT !.pc = "done"]]
    /\ UNCHANGED notRace

InitRace ==
    /\ CrashIdle /\ MergeIdle /\ ResolveIdle /\ RoundIdle /\ BranchIdle
    /\ DriverIdle /\ RaceInit

NextRace ==
    \/ \E p \in Procs : RaceLoad(p)
    \/ \E p \in Procs, title \in Titles, uid \in NewIds : RaceNew(p, title, uid)
    \/ \E p \in Procs, needle \in Needles, text \in Texts :
           RaceSummary(p, needle, text)
    \/ \E p \in Procs : RaceWriteTemp(p)
    \/ \E p \in Procs : RaceRename(p)

SpecRace == InitRace /\ [][NextRace]_vars

\* both processes have ended and at least one has saved
RaceOver ==
    /\ \A p \in Procs : proc[p].pc \in {"done", "died"}
    /\ renamed # <<>>

\* the process whose rename came last
LastWriter == renamed[Len(renamed)]

\* C20: when both processes have ended, todos.jsonl is exactly the dict
\* lines of the process that renamed last.  Another process that saved is
\* visible in the file only through what the last writer loaded: the last
\* writer's dict is its own change of the dict the other one saved, if it
\* loaded after that rename, and else its own change of the very dict the
\* other one had loaded, the other's change being lost.
C20_LastRenameWins ==
    RaceOver =>
        /\ todosFile = WriteTodos(proc[LastWriter].todos)
        /\ LoadTodos(todosFile) = proc[LastWriter].todos
        /\ \A q \in Range(renamed) \ {LastWriter} :
              IF q \in proc[LastWriter].after
              THEN proc[LastWriter].loaded = proc[q].todos
              ELSE proc[LastWriter].loaded = proc[q].loaded

\* C20 witness: both processes saved, the last writer had loaded before the
\* other one's rename, and the record the other one created is not in the
\* file.
C20_Witness ==
    /\ RaceOver
    /\ Len(renamed) = 2
    /\ \E q \in Procs \ {LastWriter} :
          /\ q \notin proc[LastWriter].after
          /\ DOMAIN proc[q].todos \ DOMAIN LoadTodos(todosFile) # {}

(***************************************************************************)
(* The merge driver statement by statement (SpecDriver): cmd_merge on the  *)
(* text of the files at its three paths, which may be missing or hold a    *)
(* line that load_todos cannot read.                                       *)
(***************************************************************************)
\* the dicts whose text is tried at a path
DriverDicts ==
    UNION {{[k \in S |-> NewItem(k, "t", f[k])] : f \in [S -> 0..MaxClock]} :
               S \in SUBSET NewIds}

\* a line without an "id" member: obj["id"] raises KeyError
NoIdLine == <<Doc(<<<<"title", "t">>>>), Newline>>
\* a line of two documents: json.loads raises JSONDecodeError
TwoDocsLine == <<Doc(JsonDumps(NewItem(<<"td-", "a">>, "t", 0))),
                 Doc(JsonDumps(NewItem(<<"td-", "b">>, "t", 0))), Newline>>

\* the files tried at a path: none, the text of a dict, an unreadable text
DriverTexts ==
    {NotWritten} \cup {WriteTodosText(d) : d \in DriverDicts}
        \cup {[exists |-> TRUE, text |-> t] : t \in {NoIdLine, TwoDocsLine}}

\* os.path.dirname(args.ours): empty for a bare file name
OursDirs == {"", ".git"}

DriverInit ==
    /\ argFiles \in [base : DriverTexts, ours : DriverTexts,
                     theirs : DriverTexts, oursDir : OursDirs]
    /\ driver = [NotCalled EXCEPT !.before = argFiles.ours]

notDriver ==
    <<storeVars, crashVars, mergeVars, resolveVars, roundVars, branchVars,
      raceVars>>

\* one of the three load_todos calls: an exception ends the process
DriverLoad(from, path, to) ==
    /\ driver.pc = from
    /\ LET r == LoadTodosText(argFiles[path])
       IN driver' = IF r.failed THEN [driver EXCEPT !.pc = "raised"]
                    ELSE [driver EXCEPT !.pc = to, ![path] = r.todos]
    /\ UNCHANGED <<argFiles, notDriver>>

\* merged = {} and the set the loop runs over
DriverStartLoop ==
    /\ driver.pc = "loaded"
    /\ driver' = [driver EXCEPT
                      !.pc = "looping",
                      !.left = DOMAIN driver.base \cup DOMAIN driver.ours
                                   \cup DOMAIN driver.theirs]
    /\ UNCHANGED <<argFiles, notDriver>>

\* one pass of the loop, for an id the set yields in any order
DriverReconcile(id) ==
    /\ driver.pc = "looping"
    /\ id \in driver.left
    /\ LET a == id \in DOMAIN driver.ours
           b == id \in DOMAIN driver.theirs
       IN driver' =
              [driver EXCEPT
                   !.left = @ \ {id},
                   !.merged =
                       IF ~a /\ ~b THEN @
                       ELSE IF \/ ~b
                               \/ (a /\ driver.ours[id].updated_at
                                            >= driver.theirs[id].updated_at)
                            THEN Put(@, id, driver.ours[id])
                            ELSE Put(@, id, driver.theirs[id])]
    /\ UNCHANGED <<argFiles, notDriver>>

\* write_todos up to the rename: makedirs raises on an empty directory
\* name, otherwise the temporary file is written next to the ours path
DriverWriteTmp ==
    /\ driver.pc = "looping"
    /\ driver.left = {}
    /\ driver' = IF argFiles.oursDir = ""
                 THEN [driver EXCEPT !.pc = "raised"]
                 ELSE [driver EXCEPT !.pc = "tmp written",
                                     !.tmp = WriteTodosText(driver.merged)]
    /\ UNCHANGED <<argFiles, notDriver>>

\* DriverMove renaming the temporary file onto the theirs path
DriverMoveOntoTheirs ==
    /\ driver.pc = "tmp written"
    /\ argFiles' = [argFiles EXCEPT !.theirs = driver.tmp]
    /\ driver' = [driver EXCEPT !.pc = "done", !.tmp = NotWritten,
                                !.written = Append(@, "theirs")]
    /\ UNCHANGED notDriver

\* shutil.move(tmp, args.ours)
DriverMove ==
    /\ driver.pc = "tmp written"
    /\ argFiles' = [argFiles EXCEPT !.ours = driver.tmp]
    /\ driver' = [driver EXCEPT !.pc = "done", !.tmp = NotWritten,
                                !.written = Append(@, "ours")]
    /\ UNCHANGED notDriver

InitDriver ==
    /\ StoreInit /\ CrashIdle /\ MergeIdle /\ ResolveIdle /\ RoundIdle
    /\ BranchIdle /\ RaceIdle /\ DriverInit

NextDriver ==
    \/ DriverLoad("start", "base", "base loaded")
    \/ DriverLoad("base loaded", "ours", "ours loaded")
    \/ DriverLoad("ours loaded", "theirs", "loaded")
    \/ DriverStartLoop
    \/ \E id \in NewIds : DriverReconcile(id)
    \/ DriverWriteTmp
    \/ DriverMove

SpecDriver == InitDriver /\ [][NextDriver]_vars

\* what the finished driver must have left at the ours path
Reconciled ==
    WriteTodosText(Merge(LoadTodosText(argFiles.base).todos,
                         LoadTodosText(driver.before).todos,
                         LoadTodosText(argFiles.theirs).todos))

\* the ours path holds what it held before the run
OursUntouched == argFiles.ours = driver.before /\ driver.written = <<>>

\* C21: until the driver has reconciled every id nothing is written; a run
\* that ends normally has made one write, of the reconciled dict, to the
\* ours path; the files at the base and theirs paths never change; a run
\* that a failing load (or any other exception) ends leaves the ours file
\* as it was.
C21_DriverWritesOursOnce ==
    /\ [](IF driver.pc = "done"
          THEN driver.written = <<"ours">> /\ argFiles.ours = Reconciled
          ELSE OursUntouched)
    /\ [][/\ argFiles'.base = argFiles.base
          /\ argFiles'.theirs = argFiles.theirs
          /\ argFiles'.ours # argFiles.ours => driver.left = {}]_vars

\* C21 witness: the driver has run to its end on three readable files and
\* replaced the ours file by a merge of two records, one of them theirs.
C21_Witness ==
    /\ driver.pc = "done"
    /\ argFiles.ours # driver.before
    /\ argFiles.base.exists /\ argFiles.theirs.exists
    /\ Cardinality(DOMAIN driver.merged) = 2
    /\ \E k \in DOMAIN driver.merged :
           /\ k \in DOMAIN driver.ours
           /\ driver.merged[k] # driver.ours[k]

(***************************************************************************)
(* Dependency cycles (SpecStore).                                          *)
(***************************************************************************)
\* the record of id k, in whichever partition holds it
StoreItem(k) == IF k \in DOMAIN OpenSet THEN OpenSet[k] ELSE ClosedSet[k]
StoreIds == DOMAIN OpenSet \cup DOMAIN ClosedSet

RECURSIVE DepsWithin(_, _)
\* the ids reached from the set S along at most n dependency edges
DepsWithin(S, n) ==
    IF n = 0 THEN S
    ELSE DepsWithin(S \cup UNION {Range(StoreItem(k).deps) : k \in S \cap StoreIds},
                    n - 1)

\* k lies on a dependency cycle: it is reached from its own dependencies
OnCycle(k) ==
    /\ k \in StoreIds
    /\ k \in DepsWithin(Range(StoreItem(k).deps), Cardinality(StoreIds))

\* C22: `dep` with a child and a parent that both resolve ends without
\* error and records the edge, also when the edge closes a cycle; and an
\* item that lies on a cycle is not listed by `ready` in the state after
\* any command.
C22_CycleNeverReady ==
    [][/\ \A c, p \in Needles :
              (/\ ResolveId(OpenSet, c).err = "ok"
               /\ ResolveId(OpenSet, p).err = "ok"
               /\ CmdDep(c, p)) =>
                  /\ exit' = "ok"
                  /\ ResolveId(OpenSet, p).id
                         \in Range(LoadTodos(todosFile')[ResolveId(OpenSet, c).id].deps)
       /\ \A k \in StoreIds : OnCycle(k) => k \notin Range(ReadyIds(LoadTodos(todosFile')))
      ]_vars

(***************************************************************************)
(* The status of the records of each file, merges included (SpecBranch).   *)
(***************************************************************************)
\* every record of the file has the status s
AllStatus(file, s) ==
    \A k \in DOMAIN LoadTodos(file) : LoadTodos(file)[k].status = s

\* C23: in the working tree and in every commit, after any commands and
\* after the merge driver has run on either file, every record of
\* todos.jsonl has status open and every record of closed.jsonl has status
\* closed.
C23_StatusMatchesFile ==
    \A c \in {WorkTree, forkBase, commitA, commitB} :
        AllStatus(c[1], "open") /\ AllStatus(c[2], "closed")

\* C23 witness: both files have been merged, the merged todos.jsonl holds a
\* record that differs from the one of branch A, and closed.jsonl holds a
\* record.
C23_Witness ==
    /\ MergeDone
    /\ \E k \in DOMAIN OpenSet :
           k \notin DOMAIN LoadTodos(commitA[1])
               \/ OpenSet[k] # LoadTodos(commitA[1])[k]
    /\ DOMAIN ClosedSet # {}


\* the branches of SpecBranch with `new` before the fork keeping the store
\* one record below MaxItems, so that a branch can add a record
NextForked ==
    \/ CanRun /\ CmdInit
    \/ \E title \in Titles, uid \in NewIds :
           /\ CanRun
           /\ CmdNew(title, uid)
           /\ phase = "before fork" => RoomLeft'
    \/ \E needle \in Needles : CanRun /\ CmdClose(needle)
    \/ \E child \in Needles, parent \in Needles :
           CanRun /\ CmdDep(child, parent)
    \/ \E needle \in Needles, text \in Texts :
           CanRun /\ CmdSummary(needle, text)
    \/ Fork
    \/ CommitA
    \/ CommitB
    \/ DriverOnTodos
    \/ DriverOnClosed

SpecForked == InitBranch /\ [][NextForked]_vars

(***************************************************************************)
(* Dependencies point at stored items (SpecStore).                         *)
(***************************************************************************)
\* the ids in the deps of the records of a dict
DepsOf(todos) == UNION {Range(todos[k].deps) : k \in DOMAIN todos}

\* C24: after any sequence of commands, every id in the deps of a record of
\* either partition is the id of a record of the open or of the closed
\* partition.
C24_NoDanglingDeps ==
    DepsOf(OpenSet) \cup DepsOf(ClosedSet) \subseteq StoreIds

\* C24 witness: an open item depends on an item that has since been closed.
C24_Witness ==
    \E k \in DOMAIN OpenSet :
        \E d \in Range(OpenSet[k].deps) :
            d \in DOMAIN ClosedSet /\ d \notin DOMAIN OpenSet

(***************************************************************************)
(* What `ready` lists after commands only (SpecStore).                     *)
(***************************************************************************)
\* C25: after any sequence of commands `ready`, which looks its dependencies
\* up in the open partition only, lists exactly the open items with empty
\* deps: an open item with a dependency is never listed, whether that
\* dependency is open or has been closed.
C25_ReadyIsOpenWithoutDeps ==
    ReadyNow = {k \in DOMAIN OpenSet : OpenSet[k].deps = <<>>}

\* C25 witness: an open item whose only dependency has been closed is not
\* listed, and nothing else is open.
C25_Witness ==
    /\ ReadyNow = {}
    /\ \E k \in DOMAIN OpenSet :
           /\ DOMAIN OpenSet = {k}
           /\ Len(OpenSet[k].deps) = 1
           /\ OpenSet[k].deps[1] \in DOMAIN ClosedSet
           /\ ClosedSet[OpenSet[k].deps[1]].status = "closed"

(***************************************************************************)
(* `close` racing `summary`, `dep` or another `close` (SpecRaceClose): the *)
(* processes of SpecRace with cmd_close, which loads and saves two files.  *)
(* A temporary file is private to its process, so each write_todos of      *)
(* cmd_close is the one step of its rename.                                *)
(***************************************************************************)
\* what a process that works on its dict leaves alone
notProc ==
    <<todosFile, renamed, dirExists, closedFile, clock, exit, printed,
      crashVars, mergeVars, resolveVars, roundVars, branchVars, driverVars>>

\* cmd_dep up to write_todos: die() ends the process, else the edge is
\* added in the process's dict unless it is there
RaceDep(p, child, parent) ==
    /\ proc[p].pc = "loaded"
    /\ LET c == ResolveId(proc[p].todos, child)
           q == ResolveId(proc[p].todos, parent)
       IN proc' = [proc EXCEPT ![p] =
                      IF c.err # "ok" \/ q.err # "ok"
                      THEN [@ EXCEPT !.pc = "died"]
                      ELSE [@ EXCEPT
                              !.pc = "changed",
                              !.todos =
                                  IF q.id \in Range(@[c.id].deps) THEN @
                                  ELSE Put(@, c.id,
                                           DepItem(@[c.id], q.id, clock))]]
    /\ UNCHANGED notProc

\* cmd_close up to its first write_todos: die() ends the process, else
\* closed.jsonl is loaded and the record moves between the two dicts
RaceClose(p, needle) ==
    /\ proc[p].pc = "loaded"
    /\ LET r == ResolveId(proc[p].todos, needle)
       IN proc' = [proc EXCEPT ![p] =
                      IF r.err # "ok" THEN [@ EXCEPT !.pc = "died"]
                      ELSE [@ EXCEPT
                              !.pc = "closing",
                              !.closed =
                                  Put(LoadTodos(closedFile), r.id,
                                      ClosedItem(proc[p].todos[r.id], clock)),
                              !.todos = Del(@, r.id)]]
    /\ UNCHANGED notProc

\* write_todos(todos, todos_file) of cmd_close
RaceSaveTodos(p) ==
    /\ proc[p].pc = "closing"
    /\ todosFile' = WriteTodos(proc[p].todos)
    /\ renamed' = Append(renamed, p)
    /\ proc' = [proc EXCEPT ![p] = [@ EXCEPT !.pc = "todos saved"]]
    /\ UNCHANGED notRace

\* write_todos(closed, closed_file) of cmd_close
RaceSaveClosed(p) ==
    /\ proc[p].pc = "todos saved"
    /\ closedFile' = WriteTodos(proc[p].closed)
    /\ proc' = [proc EXCEPT ![p] = [@ EXCEPT !.pc = "done"]]
    /\ UNCHANGED <<todosFile, renamed, dirExists, clock, exit, printed,
                   crashVars, mergeVars, resolveVars, roundVars, branchVars,
                   driverVars>>

\* the commands that change existing items, two at a time; no `new`, so no
\* id is drawn twice
NextRaceClose ==
    \/ \E p \in Procs : RaceLoad(p)
    \/ \E p \in Procs, needle \in Needles, text \in Texts :
           RaceSummary(p, needle, text)
    \/ \E p \in Procs, child \in Needles, parent \in Needles :
           RaceDep(p, child, parent)
    \/ \E p \in Procs, needle \in Needles : RaceClose(p, needle)
    \/ \E p \in Procs : RaceWriteTemp(p)
    \/ \E p \in Procs : RaceRename(p)
    \/ \E p \in Procs : RaceSaveTodos(p)
    \/ \E p \in Procs : RaceSaveClosed(p)

SpecRaceClose == InitRace /\ [][NextRaceClose]_vars

\* both processes have ended
BothEnded == \A p \in Procs : proc[p].pc \in {"done", "died"}

\* C26: when two commands that ran at the same time on one store have both
\* ended, whatever the order of their loads and saves, no id is in both
\* todos.jsonl and closed.jsonl.
C26_RaceLeavesPartitionsDisjoint ==
    BothEnded => DOMAIN OpenSet \cap DOMAIN ClosedSet = {}

====
